---- MODULE Spec2Model ----
(***************************************************************************)
(* A model of the scheduled scripts of cupid-amazon_scripts.                *)
(*                                                                         *)
(*   get-settlements.py and get-shipments.py: list the remote items, skip   *)
(*   the ones in the de-duplication log, download, store to the SMB share,  *)
(*   append the id to the log.                                              *)
(*   get-daily-invldgr-400.py, get-daily-invldgr-nas.py,                    *)
(*   get-weekly-invldgr-nas.py, get-monthly-invldgr-nas.py: token,          *)
(*   create_report, poll_report_status, download_report, save_to_tsv and    *)
(*   (400 only) send_email.                                                 *)
(*                                                                         *)
(*   as400-file-manager.py: every CHECK_INTERVAL seconds, for each job,     *)
(*   upload the first file of the job's folder unless the remote file is    *)
(*   still there, archive it and send a message.                            *)
(*                                                                         *)
(* A behaviour of Spec runs the settlements and shipments scripts           *)
(* (mode = "settlements", "shipments", "both"), or one of the report        *)
(* scripts (mode = "report"), or the file manager (mode = "filemgr"), or    *)
(* applies one function of create_report / download_report to an input     *)
(* (mode = "decode", "weekly range", "daily range", "monthly range").       *)
(* A behaviour of LiveSpec runs one report script, its poll loop scheduled  *)
(* fairly.                                                                  *)
(***************************************************************************)
EXTENDS Integers, Sequences, FiniteSets, TLC

VARIABLES
    \* ---- get-settlements.py / get-shipments.py ----
    mode,         \* which of the two scripts are scheduled in this behaviour
    lpc,          \* [Pipelines -> position of the running script]
    runs,         \* [Pipelines -> number of runs started so far]
    logFile,      \* [LogFiles -> the file of that name: exists, text (characters)]
    listing,      \* [Pipelines -> the items the remote listing returned]
    idx,          \* [Pipelines -> index of the item of the for loop]
    downloaded,   \* [Pipelines -> the in-memory set read from the log file]
    sink,         \* [Pipelines -> [Ids -> run numbers of the storeFile calls that succeeded]]
    startLedger,  \* [Pipelines -> ids in the log file when the run started] (history)
    touched,      \* [Pipelines -> ids the run requested the document of] (history)
    recorded,     \* [Pipelines -> ids handed to log_downloaded_report_id so far] (history)
    \* ---- get-*-invldgr-*.py ----
    script,       \* which report script runs
    rpc,          \* position of the report script
    rruns,        \* number of report runs started so far
    remote,       \* processingStatus of the job at the remote service
    jobId,        \* reportId returned by create_report ("" before)
    observed,     \* statuses returned by the status requests of this run, in order
    sleeps,       \* number of time.sleep(60) calls of this run
    share,        \* file names stored on the SMB share by save_to_tsv, in order
    emails,       \* bodies handed to sendmail by send_email, in order
    stages,       \* stages of the run that have succeeded, in order (history)
    http,         \* the responses to the requests of the function called last: call, status code (history)
    fetches,      \* number of download_report calls of this run (history)
    \* ---- as400-file-manager.py ----
    fpc,          \* position of main: "connect", "jobs", "sleep"; "dead" once it ended
    fjob,         \* index in JOBS of the job the for loop of main is at
    ticks,        \* number of iterations of the while loop started so far
    folder,       \* [job -> the regular files in job['folder']]
    archive,      \* [job -> the files in the archive folder of the job]
    archive_path, \* [job -> whether the archive folder of the job exists]
    remoteFile,   \* [job -> the local file stored as job['file_name'] on the share, 0 if none]
    fmails,       \* the messages handed to send_email, in order
    \* ---- download_report, the decompression alone ----
    compressed_content,  \* the bytes of the download response
    report_content,      \* what the decompression made of them (NotYet before)
    \* ---- create_report, the date range alone ----
    today,               \* datetime.date.today()
    start_date,          \* dataStartTime of the request (NoDate before)
    end_date             \* dataEndTime of the request (NoDate before)

lvars == <<mode, lpc, runs, logFile, listing, idx, downloaded, sink, startLedger, touched, recorded>>
rvars == <<script, rpc, rruns, remote, jobId, observed, sleeps, share, emails, stages, http, fetches>>
fvars == <<fpc, fjob, ticks, folder, archive, archive_path, remoteFile, fmails>>
pvars == <<compressed_content, report_content, today, start_date, end_date>>
vars == <<lvars, rvars, fvars, pvars>>

\* what the actions of one script leave alone: the state of the others
notLedger == <<rvars, fvars, pvars>>
notReport == <<lvars, fvars, pvars>>
notFileManager == <<lvars, rvars, pvars>>
notFunctions == <<lvars, rvars, fvars>>

----------------------------------------------------------------------------
(* Bounds *)

MaxRuns == 2        \* runs of settlements / shipments, scheduled alone
MaxList == 2        \* items in one remote listing
MaxPolls == 4       \* status requests in one run of a report script
MaxReportRuns == 2  \* runs of a report script
MaxTicks == 2       \* iterations of the while loop of as400-file-manager.py
MaxText == 2        \* characters of a report document
MaxDays == 152      \* days, from FirstDay on, the date range is computed for

----------------------------------------------------------------------------
(* The de-duplication log: a text file of ids, one per line *)

NL == "\n"

Pipelines == {"settlements", "shipments"}

\* report / shipment identifiers, as character strings
Ids == {<<"1">>, <<"2">>}

Range(s) == {s[i] : i \in 1..Len(s)}

\* index of the first line break of text, 0 if there is none
FirstNL(text) ==
    IF \E i \in 1..Len(text) : text[i] = NL
    THEN CHOOSE i \in 1..Len(text) : text[i] = NL /\ \A k \in 1..(i-1) : text[k] # NL
    ELSE 0

\* str.splitlines(): the lines of text, without the line breaks
RECURSIVE SplitLines(_)
SplitLines(text) ==
    IF text = <<>> THEN <<>>
    ELSE LET k == FirstNL(text) IN
         IF k = 0 THEN <<text>>
         ELSE <<SubSeq(text, 1, k-1)>> \o SplitLines(SubSeq(text, k+1, Len(text)))

NoFile == [exists |-> FALSE, text |-> <<>>]

\* get_downloaded_report_ids(): set() when the file does not exist,
\* else set(f.read().splitlines())
get_downloaded_report_ids(file) ==
    IF ~file.exists THEN {} ELSE Range(SplitLines(file.text))

\* the log opened with "w": the write replaces what the file held
log_truncating(file, report_id) ==
    [exists |-> TRUE, text |-> report_id \o <<NL>>]

\* the write without the line break
log_without_newline(file, report_id) ==
    [exists |-> TRUE, text |-> file.text \o report_id]

\* log_downloaded_report_id(report_id): open(..., "a"); f.write(report_id + "\n")
log_downloaded_report_id(file, report_id) ==
    [exists |-> TRUE, text |-> file.text \o report_id \o <<NL>>]

----------------------------------------------------------------------------
(* get-settlements.py and get-shipments.py *)

\* processingStatus values of a listed settlement report
ListStatus == {"DONE", "IN_PROGRESS"}

Items == [id : Ids, status : ListStatus]

SeqsUpTo(S, n) == UNION {[1..k -> S] : k \in 0..n}

Running(p) == lpc[p] \notin {"idle", "done", "aborted", "crashed"}

NoStores == [i \in Ids |-> <<>>]

\* both scripts with the log file of get-settlements.py
log_path_shared(p) == "settlements-log.txt"

\* the file get_downloaded_report_ids reads and log_downloaded_report_id
\* appends to, in the directory of the script (both scripts are in one)
log_path(p) ==
    IF p = "settlements" THEN "settlements-log.txt" ELSE "shipments-log.txt"

LogFiles == {log_path(p) : p \in Pipelines}

\* which of the two scripts the scheduler runs in a behaviour: one of them,
\* up to MaxRuns times one run after the other, or both of them side by side,
\* one run each
Modes == {"settlements", "shipments", "both"}

RunLimit(p) ==
    IF mode = "both" THEN 1
    ELSE IF mode = p THEN MaxRuns ELSE 0

LedgerInit ==
    /\ mode \in Modes
    /\ lpc = [p \in Pipelines |-> "idle"]
    /\ runs = [p \in Pipelines |-> 0]
    /\ logFile = [f \in LogFiles |-> NoFile]
    /\ listing = [p \in Pipelines |-> <<>>]
    /\ idx = [p \in Pipelines |-> 0]
    /\ downloaded = [p \in Pipelines |-> {}]
    /\ sink = [p \in Pipelines |-> NoStores]
    /\ startLedger = [p \in Pipelines |-> {}]
    /\ touched = [p \in Pipelines |-> {}]
    /\ recorded = [p \in Pipelines |-> {}]

\* the process of script p ends (how: "done", "aborted" by an uncaught
\* exception, "crashed"): what it held in memory is gone
Stop(p, how) ==
    /\ lpc' = [lpc EXCEPT ![p] = how]
    /\ listing' = [listing EXCEPT ![p] = <<>>]
    /\ idx' = [idx EXCEPT ![p] = 0]
    /\ downloaded' = [downloaded EXCEPT ![p] = {}]
    /\ startLedger' = [startLedger EXCEPT ![p] = {}]
    /\ touched' = [touched EXCEPT ![p] = {}]

\* the script goes on at pc, its for loop at item i
Goto(p, pc, i) ==
    /\ lpc' = [lpc EXCEPT ![p] = pc]
    /\ idx' = [idx EXCEPT ![p] = i]

\* the script is started (by the scheduler): __main__
StartRun(p) ==
    /\ ~Running(p)
    /\ runs[p] < RunLimit(p)
    /\ runs' = [runs EXCEPT ![p] = @ + 1]
    /\ Goto(p, "token", 0)
    /\ startLedger' = [startLedger EXCEPT ![p] = get_downloaded_report_ids(logFile[log_path(p)])]
    /\ UNCHANGED <<mode, logFile, listing, downloaded, sink, touched, recorded, notLedger>>

\* get_access_token(): token_response.json()["access_token"] raises KeyError
\* when the exchange is rejected, and nothing catches it
GetToken(p, ok) ==
    /\ lpc[p] = "token"
    /\ IF ok
       THEN /\ Goto(p, IF p = "settlements" THEN "list" ELSE "load", 0)
            /\ UNCHANGED <<listing, downloaded, startLedger, touched>>
       ELSE Stop(p, "aborted")
    /\ UNCHANGED <<mode, runs, logFile, sink, recorded, notLedger>>

\* the process is killed, at any point of a run
Crash(p) ==
    /\ Running(p)
    /\ Stop(p, "crashed")
    /\ UNCHANGED <<mode, runs, logFile, sink, recorded, notLedger>>

\* ---- get-settlements.py: get_settlement_report ----

\* the listing request: status 200 with the reports, or another status
\* (printed, the function returns)
SettleList(is200, reports) ==
    LET p == "settlements" IN
    /\ lpc[p] = "list"
    /\ IF is200
       THEN /\ listing' = [listing EXCEPT ![p] = reports]
            /\ downloaded' = [downloaded EXCEPT ![p] = get_downloaded_report_ids(logFile[log_path(p)])]
            /\ Goto(p, "loop", 1)
            /\ UNCHANGED <<startLedger, touched>>
       ELSE Stop(p, "done")
    /\ UNCHANGED <<mode, runs, logFile, sink, recorded, notLedger>>

\* the if without the test of the downloaded ids
SettleWantedUnchecked(report, downloaded_reports) ==
    report.status = "DONE"

\* the if without the test of the status
SettleWantedAnyStatus(report, downloaded_reports) ==
    report.id \notin downloaded_reports

\* the if of the for loop: processing_status == "DONE" and report_id not in downloaded_reports
SettleWanted(report, downloaded_reports) ==
    report.status = "DONE" /\ report.id \notin downloaded_reports

\* for report in report_data['reports']: the next report, or the end of the loop
SettleLoop ==
    LET p == "settlements" IN
    /\ lpc[p] = "loop"
    /\ IF idx[p] > Len(listing[p])
       THEN Stop(p, "done")
       ELSE /\ IF SettleWanted(listing[p][idx[p]], downloaded[p])
               THEN Goto(p, "fetch", idx[p])
               ELSE Goto(p, "loop", idx[p] + 1)
            /\ UNCHANGED <<listing, downloaded, startLedger, touched>>
    /\ UNCHANGED <<mode, runs, logFile, sink, recorded, notLedger>>

\* the id logged in the except branch as well
SettleFetchLogsOnError(ok) ==
    LET p == "settlements"
        id == listing[p][idx[p]].id IN
    /\ lpc[p] = "fetch"
    /\ touched' = [touched EXCEPT ![p] = @ \cup {id}]
    /\ IF ok
       THEN /\ Goto(p, "store", idx[p])
            /\ UNCHANGED <<logFile, recorded>>
       ELSE /\ Goto(p, "loop", idx[p] + 1)
            /\ logFile' = [logFile EXCEPT ![log_path(p)] = log_downloaded_report_id(@, id)]
            /\ recorded' = [recorded EXCEPT ![p] = @ \cup {id}]
    /\ UNCHANGED <<mode, runs, listing, downloaded, sink, startLedger, notLedger>>

\* the loop without its try: an exception of download_report ends the run
SettleFetchRaises(ok) ==
    LET p == "settlements"
        id == listing[p][idx[p]].id IN
    /\ lpc[p] = "fetch"
    /\ IF ok
       THEN /\ touched' = [touched EXCEPT ![p] = @ \cup {id}]
            /\ Goto(p, "store", idx[p])
            /\ UNCHANGED <<listing, downloaded, startLedger>>
       ELSE Stop(p, "aborted")
    /\ UNCHANGED <<mode, runs, logFile, sink, recorded, notLedger>>

\* download_report up to the local file: the two requests with raise_for_status;
\* an exception is caught by the except of the loop, which goes on with the
\* next report
SettleFetch(ok) ==
    LET p == "settlements"
        id == listing[p][idx[p]].id IN
    /\ lpc[p] = "fetch"
    /\ touched' = [touched EXCEPT ![p] = @ \cup {id}]
    /\ IF ok THEN Goto(p, "store", idx[p]) ELSE Goto(p, "loop", idx[p] + 1)
    /\ UNCHANGED <<mode, runs, logFile, listing, downloaded, sink, startLedger, recorded, notLedger>>

\* smb_upload swallowing the exception of storeFile: the id is logged though
\* nothing was stored
SettleStoreSwallows(ok) ==
    LET p == "settlements" IN
    /\ lpc[p] = "store"
    /\ IF ok
       THEN sink' = [sink EXCEPT ![p][listing[p][idx[p]].id] = Append(@, runs[p])]
       ELSE UNCHANGED sink
    /\ Goto(p, "log", idx[p])
    /\ UNCHANGED <<mode, runs, logFile, listing, downloaded, startLedger, touched, recorded, notLedger>>

\* smb_upload: connect and storeFile; an exception is caught by the except of
\* the loop and log_downloaded_report_id is not reached
SettleStore(ok) ==
    LET p == "settlements"
        id == listing[p][idx[p]].id IN
    /\ lpc[p] = "store"
    /\ IF ok
       THEN /\ sink' = [sink EXCEPT ![p][id] = Append(@, runs[p])]
            /\ Goto(p, "log", idx[p])
            /\ UNCHANGED logFile
       ELSE /\ Goto(p, "loop", idx[p] + 1)
            /\ UNCHANGED <<sink, logFile>>
    /\ UNCHANGED <<mode, runs, listing, downloaded, startLedger, touched, recorded, notLedger>>

\* log_downloaded_report_id(report_id), then the next report
SettleLog ==
    LET p == "settlements"
        id == listing[p][idx[p]].id IN
    /\ lpc[p] = "log"
    /\ logFile' = [logFile EXCEPT ![log_path(p)] = log_downloaded_report_id(@, id)]
    /\ recorded' = [recorded EXCEPT ![p] = @ \cup {id}]
    /\ Goto(p, "loop", idx[p] + 1)
    /\ UNCHANGED <<mode, runs, listing, downloaded, sink, startLedger, touched, notLedger>>

\* ---- get-shipments.py: main ----

\* downloaded_shipment_ids = get_downloaded_report_ids()
ShipLoad ==
    LET p == "shipments" IN
    /\ lpc[p] = "load"
    /\ downloaded' = [downloaded EXCEPT ![p] = get_downloaded_report_ids(logFile[log_path(p)])]
    /\ Goto(p, "list", 0)
    /\ UNCHANGED <<mode, runs, logFile, listing, sink, startLedger, touched, recorded, notLedger>>

\* get_shipment_ids: a status other than 200 raises (raise_for_status), which
\* nothing catches
ShipList(is200, shipment_ids) ==
    LET p == "shipments" IN
    /\ lpc[p] = "list"
    /\ IF is200
       THEN /\ listing' = [listing EXCEPT ![p] = shipment_ids]
            /\ Goto(p, "loop", 1)
            /\ UNCHANGED <<downloaded, startLedger, touched>>
       ELSE Stop(p, "aborted")
    /\ UNCHANGED <<mode, runs, logFile, sink, recorded, notLedger>>

\* the if of the for loop: shipment_id not in downloaded_shipment_ids
ShipWanted(shipment_id, downloaded_shipment_ids) ==
    shipment_id \notin downloaded_shipment_ids

\* for shipment_id in shipment_ids: the next shipment, or the end of the loop
ShipLoop ==
    LET p == "shipments" IN
    /\ lpc[p] = "loop"
    /\ IF idx[p] > Len(listing[p])
       THEN Stop(p, "done")
       ELSE /\ IF ShipWanted(listing[p][idx[p]], downloaded[p])
               THEN Goto(p, "fetch", idx[p])
               ELSE Goto(p, "loop", idx[p] + 1)
            /\ UNCHANGED <<listing, downloaded, startLedger, touched>>
    /\ UNCHANGED <<mode, runs, logFile, sink, recorded, notLedger>>

\* get_shipment_items: a status other than 200 raises; main has no try, the
\* run ends with the exception
ShipItems(ok) ==
    LET p == "shipments"
        id == listing[p][idx[p]] IN
    /\ lpc[p] = "fetch"
    /\ IF ok
       THEN /\ touched' = [touched EXCEPT ![p] = @ \cup {id}]
            /\ Goto(p, "store1", idx[p])
            /\ UNCHANGED <<listing, downloaded, startLedger>>
       ELSE Stop(p, "aborted")
    /\ UNCHANGED <<mode, runs, logFile, sink, recorded, notLedger>>

\* save_to_csv: the local file, then save_to_smb(file_path, filename) twice
\* (lines 199 and 202); an exception of storeFile ends the run
ShipSaveToSmb(ok) ==
    LET p == "shipments"
        id == listing[p][idx[p]] IN
    /\ lpc[p] \in {"store1", "store2"}
    /\ IF ok
       THEN /\ sink' = [sink EXCEPT ![p][id] = Append(@, runs[p])]
            /\ Goto(p, IF lpc[p] = "store1" THEN "store2" ELSE "log", idx[p])
            /\ UNCHANGED <<listing, downloaded, startLedger, touched>>
       ELSE /\ Stop(p, "aborted")
            /\ UNCHANGED sink
    /\ UNCHANGED <<mode, runs, logFile, recorded, notLedger>>

\* log_downloaded_report_id(shipment_id), then the next shipment
ShipLog ==
    LET p == "shipments"
        id == listing[p][idx[p]] IN
    /\ lpc[p] = "log"
    /\ logFile' = [logFile EXCEPT ![log_path(p)] = log_downloaded_report_id(@, id)]
    /\ recorded' = [recorded EXCEPT ![p] = @ \cup {id}]
    /\ Goto(p, "loop", idx[p] + 1)
    /\ UNCHANGED <<mode, runs, listing, downloaded, sink, startLedger, touched, notLedger>>

LedgerNext ==
    \/ \E p \in Pipelines : StartRun(p)
    \/ \E p \in Pipelines, ok \in BOOLEAN : GetToken(p, ok)
    \/ \E p \in Pipelines : Crash(p)
    \/ \E is200 \in BOOLEAN, reports \in SeqsUpTo(Items, MaxList) : SettleList(is200, reports)
    \/ SettleLoop
    \/ \E ok \in BOOLEAN : SettleFetch(ok)
    \/ \E ok \in BOOLEAN : SettleStore(ok)
    \/ SettleLog
    \/ ShipLoad
    \/ \E is200 \in BOOLEAN, shipment_ids \in SeqsUpTo(Ids, MaxList) : ShipList(is200, shipment_ids)
    \/ ShipLoop
    \/ \E ok \in BOOLEAN : ShipItems(ok)
    \/ \E ok \in BOOLEAN : ShipSaveToSmb(ok)
    \/ ShipLog

----------------------------------------------------------------------------
(* The payload of a report document: utf-8 text, gzip-framed or not.        *)
(* gzip is the library's; it is modelled by a run-length code between the   *)
(* two magic bytes and a trailer that holds the length of the data.         *)

Chars == {"a", "b"}

Texts == SeqsUpTo(Chars, MaxText)

\* str.encode('utf-8') of one character
Utf8(c) == IF c = "a" THEN 97 ELSE 98

Utf8Encode(text) == [i \in 1..Len(text) |-> Utf8(text[i])]

\* the result of a step that raised
Raised == [ok |-> FALSE, text |-> <<>>]

\* bytes.decode('utf-8'): UnicodeDecodeError for a byte that is no character
Utf8Decode(bytes) ==
    IF \A i \in 1..Len(bytes) : bytes[i] \in {Utf8(c) : c \in Chars}
    THEN [ok |-> TRUE, text |-> [i \in 1..Len(bytes) |-> CHOOSE c \in Chars : Utf8(c) = bytes[i]]]
    ELSE Raised

\* the two bytes a gzip member starts with
GzipMagic == <<31, 139>>

\* the number of bytes at the start of bytes that equal the first one
RunLength(bytes) ==
    CHOOSE n \in 1..Len(bytes) :
        /\ \A i \in 1..n : bytes[i] = bytes[1]
        /\ n = Len(bytes) \/ bytes[n + 1] # bytes[1]

RECURSIVE Deflate(_)
Deflate(bytes) ==
    IF bytes = <<>> THEN <<>>
    ELSE LET n == RunLength(bytes) IN
         <<n, bytes[1]>> \o Deflate(SubSeq(bytes, n + 1, Len(bytes)))

RECURSIVE Inflate(_)
Inflate(z) ==
    IF Len(z) < 2 THEN <<>>
    ELSE [i \in 1..z[1] |-> z[2]] \o Inflate(SubSeq(z, 3, Len(z)))

\* gzip.compress(bytes)
GzipCompress(bytes) == GzipMagic \o Deflate(bytes) \o <<Len(bytes)>>

GzipFramed(payload) == Len(payload) >= 2 /\ SubSeq(payload, 1, 2) = GzipMagic

\* gzip.GzipFile(fileobj=BytesIO(payload)).read(): no bytes for an empty
\* payload, BadGzipFile when the payload does not start with the magic bytes,
\* an error when the member is cut short or the length of the trailer is not
\* the length of the data
GzipRead(payload) ==
    IF payload = <<>> THEN [ok |-> TRUE, bytes |-> <<>>]
    ELSE IF ~GzipFramed(payload) \/ Len(payload) < 3 \/ (Len(payload) - 3) % 2 # 0
    THEN [ok |-> FALSE, bytes |-> <<>>]
    ELSE LET data == Inflate(SubSeq(payload, 3, Len(payload) - 1)) IN
         IF Len(data) = payload[Len(payload)]
         THEN [ok |-> TRUE, bytes |-> data]
         ELSE [ok |-> FALSE, bytes |-> <<>>]

\* the payloads a download returns: a text gzip-framed, a text as it is, an
\* error document, a gzip member cut short, one with a wrong trailer, and the
\* gzip of bytes that are no utf-8 text
Payloads ==
    {GzipCompress(Utf8Encode(t)) : t \in Texts} \cup {Utf8Encode(t) : t \in Texts}
    \cup {GzipMagic, GzipMagic \o <<1, 97, 2>>, GzipCompress(<<255>>)}

\* the payload read as text whatever its framing
decode_any_framing(compressed_content_) ==
    IF GzipFramed(compressed_content_)
    THEN LET g == GzipRead(compressed_content_) IN
         IF g.ok THEN Utf8Decode(g.bytes) ELSE Raised
    ELSE Utf8Decode(compressed_content_)

\* download_report, lines 144-146: gzip.GzipFile(...).read().decode('utf-8'),
\* always, whatever the payload starts with
decode(compressed_content_) ==
    LET g == GzipRead(compressed_content_) IN
    IF g.ok THEN Utf8Decode(g.bytes) ELSE Raised

NotYet == [ok |-> FALSE, text |-> <<"?">>]

----------------------------------------------------------------------------
(* The date range of create_report: datetime.date and timedelta             *)

IsLeap(y) == y % 4 = 0 /\ (y % 100 # 0 \/ y % 400 = 0)

DaysInMonth(y, m) ==
    IF m = 2 THEN (IF IsLeap(y) THEN 29 ELSE 28)
    ELSE IF m \in {4, 6, 9, 11} THEN 30
    ELSE 31

Date(y, m, d) == [year |-> y, month |-> m, day |-> d]

NoDate == Date(0, 0, 0)

\* date + timedelta(days=1), date - timedelta(days=1)
NextDay(d) ==
    IF d.day < DaysInMonth(d.year, d.month) THEN Date(d.year, d.month, d.day + 1)
    ELSE IF d.month < 12 THEN Date(d.year, d.month + 1, 1)
    ELSE Date(d.year + 1, 1, 1)

PrevDay(d) ==
    IF d.day > 1 THEN Date(d.year, d.month, d.day - 1)
    ELSE IF d.month > 1 THEN Date(d.year, d.month - 1, DaysInMonth(d.year, d.month - 1))
    ELSE Date(d.year - 1, 12, 31)

\* date + timedelta(days=n)
RECURSIVE AddDays(_, _)
AddDays(d, n) ==
    IF n = 0 THEN d
    ELSE IF n > 0 THEN AddDays(NextDay(d), n - 1)
    ELSE AddDays(PrevDay(d), n + 1)

\* date.toordinal(): the number of the day, 1 for 0001-01-01
RECURSIVE DaysBeforeMonth(_, _)
DaysBeforeMonth(y, m) ==
    IF m = 1 THEN 0 ELSE DaysBeforeMonth(y, m - 1) + DaysInMonth(y, m - 1)

toordinal(d) ==
    LET y == d.year - 1 IN
    y * 365 + (y \div 4) - (y \div 100) + (y \div 400) + DaysBeforeMonth(d.year, d.month) + d.day

\* date.weekday(): 0 for Monday ... 6 for Sunday
weekday(d) == (toordinal(d) + 6) % 7

\* date.replace(day=n)
replace_day(d, n) == Date(d.year, d.month, n)

\* the first of the days today is drawn from
FirstDay == Date(2023, 12, 1)

\* the days of the calendar in the years FirstDay and the days after it fall in
Calendar ==
    {d \in [year : {FirstDay.year, FirstDay.year + 1}, month : 1..12, day : 1..31] :
        d.day <= DaysInMonth(d.year, d.month)}

Days == {d \in Calendar : toordinal(d) - toordinal(FirstDay) \in 0..(MaxDays - 1)}

\* the while loop of lines 46-47: back to the Monday on or before d
RECURSIVE BackToMonday(_)
BackToMonday(d) == IF weekday(d) = 0 THEN d ELSE BackToMonday(PrevDay(d))

\* get-weekly-invldgr-nas.py, create_report, lines 44-53
weekly_range(today_) ==
    LET monday == BackToMonday(today_)
        start == AddDays(monday, -6)
        end == IF start.month # monday.month
               THEN AddDays(replace_day(start, 1), -1)
               ELSE monday
    IN [start_date |-> start, end_date |-> AddDays(end, 1)]

\* the range of a daily script with the start on the day of the end
daily_range_one_day(today_) ==
    LET end == AddDays(today_, -1)
    IN [start_date |-> end, end_date |-> end]

\* get-daily-invldgr-400.py, create_report, lines 57-58
daily_range_400(today_) ==
    LET end == AddDays(today_, -1)
        start == AddDays(end, -1)
    IN [start_date |-> start, end_date |-> end]

\* get-daily-invldgr-nas.py, create_report, lines 47-48
daily_range_nas(today_) ==
    LET end == AddDays(today_, -1)
        start == AddDays(end, -1)
    IN [start_date |-> start, end_date |-> end]

\* the range of the monthly script without the day added to its end
monthly_range_inclusive(today_) ==
    LET first_day_of_current_month == replace_day(today_, 1)
        last_day_of_last_month == AddDays(first_day_of_current_month, -1)
    IN [start_date |-> replace_day(last_day_of_last_month, 1),
        end_date |-> last_day_of_last_month]

\* get-monthly-invldgr-nas.py, create_report, lines 47-51
monthly_range(today_) ==
    LET first_day_of_current_month == replace_day(today_, 1)
        last_day_of_last_month == AddDays(first_day_of_current_month, -1)
    IN [start_date |-> replace_day(last_day_of_last_month, 1),
        end_date |-> AddDays(last_day_of_last_month, 1)]

FunctionsIdle ==
    /\ compressed_content = <<>>
    /\ report_content = NotYet
    /\ today = NoDate
    /\ start_date = NoDate
    /\ end_date = NoDate

\* the decompression of download_report applied to a payload
DecodeInit ==
    /\ compressed_content \in Payloads
    /\ report_content = NotYet
    /\ today = NoDate
    /\ start_date = NoDate
    /\ end_date = NoDate

\* the date range of create_report computed on a day
RangeInit ==
    /\ compressed_content = <<>>
    /\ report_content = NotYet
    /\ today \in Days
    /\ start_date = NoDate
    /\ end_date = NoDate

\* lines 144-146 of download_report
Decompress ==
    /\ mode = "decode"
    /\ report_content = NotYet
    /\ report_content' = decode(compressed_content)
    /\ UNCHANGED <<compressed_content, today, start_date, end_date, notFunctions>>

\* get-weekly-invldgr-nas.py, create_report up to the print of the range
WeeklyRange ==
    /\ mode = "weekly range"
    /\ start_date = NoDate
    /\ start_date' = weekly_range(today).start_date
    /\ end_date' = weekly_range(today).end_date
    /\ UNCHANGED <<compressed_content, report_content, today, notFunctions>>

\* get-daily-invldgr-400.py, create_report up to the print of the range
DailyRange400 ==
    /\ mode = "daily range"
    /\ script = "daily400"
    /\ start_date = NoDate
    /\ start_date' = daily_range_400(today).start_date
    /\ end_date' = daily_range_400(today).end_date
    /\ UNCHANGED <<compressed_content, report_content, today, notFunctions>>

\* get-daily-invldgr-nas.py, create_report up to the print of the range
DailyRangeNas ==
    /\ mode = "daily range"
    /\ script = "dailynas"
    /\ start_date = NoDate
    /\ start_date' = daily_range_nas(today).start_date
    /\ end_date' = daily_range_nas(today).end_date
    /\ UNCHANGED <<compressed_content, report_content, today, notFunctions>>

\* get-monthly-invldgr-nas.py, create_report up to the prints of the range
MonthlyRange ==
    /\ mode = "monthly range"
    /\ script = "monthly"
    /\ start_date = NoDate
    /\ start_date' = monthly_range(today).start_date
    /\ end_date' = monthly_range(today).end_date
    /\ UNCHANGED <<compressed_content, report_content, today, notFunctions>>

FunctionsNext ==
    \/ Decompress
    \/ WeeklyRange
    \/ DailyRange400
    \/ DailyRangeNas
    \/ MonthlyRange

----------------------------------------------------------------------------
(* get-daily-invldgr-400.py, get-daily-invldgr-nas.py,                      *)
(* get-weekly-invldgr-nas.py, get-monthly-invldgr-nas.py                    *)

Scripts == {"daily400", "dailynas", "weekly", "monthly"}

\* processingStatus values of the remote service; PAUSED stands for a status
\* the scripts do not know
Statuses == {"IN_QUEUE", "IN_PROGRESS", "DONE", "CANCELLED", "FATAL", "PAUSED"}
Terminal == {"DONE", "CANCELLED", "FATAL"}

\* reportId values of a creation response
JobIds == {"r1", ""}

\* the creation response: its status code and its JSON body
CreateResponses == [code : {202, 200, 204, 401}, hasId : BOOLEAN, reportId : JobIds]

Ended == {"idle", "done", "aborted", "failed"}

Last(s) == s[Len(s)]

ReportIdle ==
    /\ script = "none"
    /\ rpc = "idle"
    /\ rruns = 0
    /\ remote = "NONE"
    /\ jobId = ""
    /\ observed = <<>>
    /\ sleeps = 0
    /\ share = <<>>
    /\ emails = <<>>
    /\ stages = <<>>
    /\ http = <<>>
    /\ fetches = 0

LedgerIdle ==
    /\ lpc = [p \in Pipelines |-> "idle"]
    /\ runs = [p \in Pipelines |-> 0]
    /\ logFile = [f \in LogFiles |-> NoFile]
    /\ listing = [p \in Pipelines |-> <<>>]
    /\ idx = [p \in Pipelines |-> 0]
    /\ downloaded = [p \in Pipelines |-> {}]
    /\ sink = [p \in Pipelines |-> NoStores]
    /\ startLedger = [p \in Pipelines |-> {}]
    /\ touched = [p \in Pipelines |-> {}]
    /\ recorded = [p \in Pipelines |-> {}]

ReportInit ==
    /\ script \in Scripts
    /\ rpc = "idle"
    /\ rruns = 0
    /\ remote = "NONE"
    /\ jobId = ""
    /\ observed = <<>>
    /\ sleeps = 0
    /\ share = <<>>
    /\ emails = <<>>
    /\ stages = <<>>
    /\ http = <<>>
    /\ fetches = 0

\* the script is started (by the scheduler): __main__. The daily scripts first
\* call test_smb_connection, which prints and swallows every error.
ReportStart ==
    /\ mode = "report"
    /\ rpc \in Ended
    /\ rruns < MaxReportRuns
    /\ rruns' = rruns + 1
    /\ rpc' = "token"
    /\ remote' = "NONE"
    /\ jobId' = ""
    /\ observed' = <<>>
    /\ sleeps' = 0
    /\ share' = <<>>
    /\ emails' = <<>>
    /\ stages' = <<>>
    /\ http' = <<>>
    /\ fetches' = 0
    /\ UNCHANGED <<script, notReport>>

\* get_access_token() returning None when the response has no access_token
ReportTokenReturnsNone(ok) ==
    /\ rpc = "token"
    /\ rpc' = "create"
    /\ http' = <<[call |-> "token", code |-> IF ok THEN 200 ELSE 400]>>
    /\ UNCHANGED <<script, rruns, remote, jobId, observed, sleeps, share, emails, stages, fetches, notReport>>

\* get_access_token(): KeyError when the response has no access_token
ReportToken(ok) ==
    /\ rpc = "token"
    /\ rpc' = IF ok THEN "create" ELSE "aborted"
    /\ http' = <<[call |-> "token", code |-> IF ok THEN 200 ELSE 400]>>
    /\ UNCHANGED <<script, rruns, remote, jobId, observed, sleeps, share, emails, stages, fetches, notReport>>

\* create_report, after the request: 202 and 200 go on, raise_for_status()
\* raises for a 4xx/5xx code only; then ValueError when the body has no reportId
CreateRaises(resp) ==
    \/ (resp.code \notin {202, 200} /\ resp.code >= 400)
    \/ ~resp.hasId

\* a 401 answered by a new token request and the creation requested again
create_report_refreshes(resp) ==
    /\ rpc = "create"
    /\ IF resp.code = 401
       THEN /\ rpc' = "token"
            /\ UNCHANGED <<jobId, remote, stages>>
       ELSE IF CreateRaises(resp)
       THEN /\ rpc' = "aborted"
            /\ UNCHANGED <<jobId, remote, stages>>
       ELSE /\ rpc' = "poll"
            /\ jobId' = resp.reportId
            /\ remote' = "IN_QUEUE"
            /\ stages' = Append(stages, "create")
    /\ http' = <<[call |-> "create", code |-> resp.code]>>
    /\ UNCHANGED <<script, rruns, observed, sleeps, share, emails, fetches, notReport>>

create_report(resp) ==
    /\ rpc = "create"
    /\ IF CreateRaises(resp)
       THEN /\ rpc' = "aborted"
            /\ UNCHANGED <<jobId, remote, stages>>
       ELSE /\ rpc' = "poll"
            /\ jobId' = resp.reportId
            /\ remote' = "IN_QUEUE"
            /\ stages' = Append(stages, "create")
    /\ http' = <<[call |-> "create", code |-> resp.code]>>
    /\ UNCHANGED <<script, rruns, observed, sleeps, share, emails, fetches, notReport>>

\* the remote service works on the job: a status that is not terminal is
\* followed by any other status but IN_QUEUE
RemoteStep(s) ==
    /\ remote \in Statuses \ Terminal
    /\ s \in Statuses \ {"IN_QUEUE", remote}
    /\ remote' = s
    /\ UNCHANGED <<script, rpc, rruns, jobId, observed, sleeps, share, emails, stages, http, fetches, notReport>>

\* the loop giving up after two sleeps
PollOutcomeTimeout(report_status) ==
    IF report_status = "DONE" THEN "download"
    ELSE IF report_status \in {"CANCELLED", "FAILED"} THEN "failed"
    ELSE IF sleeps >= 2 THEN "failed"
    ELSE "sleep"

\* a status the loop does not know taken for a failure
PollOutcomeKnownOnly(report_status) ==
    IF report_status = "DONE" THEN "download"
    ELSE IF report_status \in {"IN_QUEUE", "IN_PROGRESS"} THEN "sleep"
    ELSE "failed"

\* what one iteration of the while loop of poll_report_status does with the
\* status it read: return, raise, or sleep and poll again
PollOutcome(report_status) ==
    IF report_status = "DONE" THEN "download"
    ELSE IF report_status \in {"CANCELLED", "FAILED"} THEN "failed"
    ELSE "sleep"

\* the responses to a status request: the status of the job, or an error
\* document (401 when the access token has expired)
StatusResponses ==
    {[code |-> 200, hasStatus |-> TRUE],
     [code |-> 401, hasStatus |-> FALSE],
     [code |-> 500, hasStatus |-> FALSE]}

\* poll_report_status: one status request of the while loop; the status code
\* is not looked at, a response without processingStatus raises KeyError
poll_report_status(resp) ==
    /\ rpc = "poll"
    /\ Len(observed) < MaxPolls
    /\ http' = <<[call |-> "status", code |-> resp.code]>>
    /\ IF resp.hasStatus
       THEN /\ observed' = Append(observed, remote)
            /\ rpc' = PollOutcome(remote)
            /\ stages' = IF remote = "DONE" THEN Append(stages, "await") ELSE stages
       ELSE /\ rpc' = "aborted"
            /\ UNCHANGED <<observed, stages>>
    /\ UNCHANGED <<script, rruns, remote, jobId, sleeps, share, emails, fetches, notReport>>

\* the seconds of the sleep between two status requests
PollInterval == 60

\* time.sleep(60) at the end of the loop body
PollSleep ==
    /\ rpc = "sleep"
    /\ sleeps' = sleeps + 1
    /\ rpc' = "poll"
    /\ UNCHANGED <<script, rruns, remote, jobId, observed, share, emails, stages, http, fetches, notReport>>

\* the responses to the document request and to the download: the status
\* code and what the body holds
DocumentResponses == [code : {200, 500}, hasUrl : BOOLEAN]
DownloadResponses == [code : {200, 403}, content : Payloads]

\* download_report called again, up to three times, when it raised
download_report_retries(doc, dl) ==
    LET ok == doc.hasUrl /\ decode(dl.content).ok IN
    /\ rpc = "download"
    /\ fetches' = fetches + 1
    /\ http' = IF doc.hasUrl
               THEN <<[call |-> "document", code |-> doc.code],
                      [call |-> "download", code |-> dl.code]>>
               ELSE <<[call |-> "document", code |-> doc.code]>>
    /\ rpc' = IF ok THEN "save" ELSE IF fetches' < 3 THEN "download" ELSE "aborted"
    /\ stages' = IF ok THEN Append(stages, "fetch") ELSE stages
    /\ UNCHANGED <<script, rruns, remote, jobId, observed, sleeps, share, emails, notReport>>

\* download_report: the document request, json()["url"] (KeyError without
\* it), the download and the decompression; no status code is looked at, any
\* exception leaves the function and __main__
download_report(doc, dl) ==
    /\ rpc = "download"
    /\ fetches' = fetches + 1
    /\ IF ~doc.hasUrl
       THEN /\ http' = <<[call |-> "document", code |-> doc.code]>>
            /\ rpc' = "aborted"
            /\ UNCHANGED stages
       ELSE /\ http' = <<[call |-> "document", code |-> doc.code],
                         [call |-> "download", code |-> dl.code]>>
            /\ IF decode(dl.content).ok
               THEN /\ rpc' = "save"
                    /\ stages' = Append(stages, "fetch")
               ELSE /\ rpc' = "aborted"
                    /\ UNCHANGED stages
    /\ UNCHANGED <<script, rruns, remote, jobId, observed, sleeps, share, emails, notReport>>

\* the file name handed to save_to_tsv
Filename(s) ==
    CASE s = "daily400" -> "amazonia.tsv"
      [] s = "dailynas" -> "amazonia_{date_str}.tsv"
      [] s = "weekly" -> "amazonia_week{week_num}_{month_year_str}.tsv"
      [] s = "monthly" -> "amazonia_{month_year_str}.tsv"

\* what __main__ does after save_to_tsv returned
AfterSave(s) == IF s = "daily400" THEN "email" ELSE "done"

\* save_to_tsv printing the error instead of raising it: __main__ goes on
save_to_tsv_swallows(connected, stored) ==
    /\ rpc = "save"
    /\ rpc' = AfterSave(script)
    /\ IF connected /\ stored
       THEN /\ share' = Append(share, Filename(script))
            /\ stages' = Append(stages, "persist")
       ELSE UNCHANGED <<share, stages>>
    /\ UNCHANGED <<script, rruns, remote, jobId, observed, sleeps, emails, http, fetches, notReport>>

\* save_to_tsv: ConnectionError when connect fails, an exception of storeFile
\* is not caught either
save_to_tsv(connected, stored) ==
    /\ rpc = "save"
    /\ IF connected /\ stored
       THEN /\ share' = Append(share, Filename(script))
            /\ rpc' = AfterSave(script)
            /\ stages' = Append(stages, "persist")
       ELSE /\ rpc' = "aborted"
            /\ UNCHANGED <<share, stages>>
    /\ UNCHANGED <<script, rruns, remote, jobId, observed, sleeps, emails, http, fetches, notReport>>

\* the body naming the file as the nas script names it
EmailBodyOtherName ==
    <<"filename: ", "amazonia_{date_str}.tsv", "\nhas been uploaded and is ready for processing.">>

\* the body of the message of send_email (get-daily-invldgr-400.py)
EmailBody == <<"filename: ", "amazonia.tsv", "\nhas been uploaded and is ready for processing.">>

\* send_email without its try: an SMTP error ends the run
send_email_raises(sent) ==
    /\ rpc = "email"
    /\ emails' = Append(emails, [body |-> EmailBody, sent |-> sent])
    /\ IF sent
       THEN rpc' = "done" /\ stages' = Append(stages, "notify")
       ELSE rpc' = "aborted" /\ UNCHANGED stages
    /\ UNCHANGED <<script, rruns, remote, jobId, observed, sleeps, share, http, fetches, notReport>>

\* send_email: builds the message and sends it; an SMTP error is printed
send_email(sent) ==
    /\ rpc = "email"
    /\ emails' = Append(emails, [body |-> EmailBody, sent |-> sent])
    /\ rpc' = "done"
    /\ stages' = Append(stages, "notify")
    /\ UNCHANGED <<script, rruns, remote, jobId, observed, sleeps, share, http, fetches, notReport>>

ReportNext ==
    \/ ReportStart
    \/ \E ok \in BOOLEAN : ReportToken(ok)
    \/ \E resp \in CreateResponses : create_report(resp)
    \/ \E s \in Statuses : RemoteStep(s)
    \/ \E resp \in StatusResponses : poll_report_status(resp)
    \/ PollSleep
    \/ \E doc \in DocumentResponses, dl \in DownloadResponses : download_report(doc, dl)
    \/ \E connected \in BOOLEAN, stored \in BOOLEAN : save_to_tsv(connected, stored)
    \/ \E sent \in BOOLEAN : send_email(sent)

----------------------------------------------------------------------------
(* as400-file-manager.py *)

\* the jobs of the configuration file, in the order of the for loop of main
JOBS == <<"job1", "job2">>

\* names of local files; sorted() orders them as the numbers are ordered
Files == {1, 2}

\* the last of the sorted names taken for the first
Last_of_sorted(S) == CHOOSE x \in S : \A y \in S : x >= y

Min(S) == CHOOSE x \in S : \A y \in S : x <= y

FileManagerIdle ==
    /\ fpc = "off"
    /\ fjob = 0
    /\ ticks = 0
    /\ folder = [j \in Range(JOBS) |-> {}]
    /\ archive = [j \in Range(JOBS) |-> {}]
    /\ archive_path = [j \in Range(JOBS) |-> FALSE]
    /\ remoteFile = [j \in Range(JOBS) |-> 0]
    /\ fmails = <<>>

\* main() has been called: it is at the top of its while loop
FileManagerInit ==
    /\ fpc = "connect"
    /\ fjob = 0
    /\ ticks = 0
    /\ folder = [j \in Range(JOBS) |-> {}]
    /\ archive = [j \in Range(JOBS) |-> {}]
    /\ archive_path = [j \in Range(JOBS) |-> FALSE]
    /\ remoteFile = [j \in Range(JOBS) |-> 0]
    /\ fmails = <<>>

\* a file is put into the folder of a job (by whoever feeds the queue)
FileArrives(job, f) ==
    /\ fpc # "off"
    /\ f \notin folder[job] \cup archive[job]
    /\ folder' = [folder EXCEPT ![job] = @ \cup {f}]
    /\ UNCHANGED <<fpc, fjob, ticks, archive, archive_path, remoteFile, fmails, notFileManager>>

\* the remote system takes the file of a job off the share
RemoteConsumes(job) ==
    /\ fpc # "off"
    /\ remoteFile[job] # 0
    /\ remoteFile' = [remoteFile EXCEPT ![job] = 0]
    /\ UNCHANGED <<fpc, fjob, ticks, folder, archive, archive_path, fmails, notFileManager>>

\* the top of the while loop of main: conn = smb_connect(), which returns
\* None when connect fails or raises; then the for loop, or the print
smb_connect(connected) ==
    /\ fpc = "connect"
    /\ ticks < MaxTicks
    /\ ticks' = ticks + 1
    /\ fpc' = IF connected THEN "jobs" ELSE "sleep"
    /\ fjob' = IF connected THEN 1 ELSE 0
    /\ UNCHANGED <<folder, archive, archive_path, remoteFile, fmails, notFileManager>>

\* file_exists(conn, SHARE_NAME, job['file_name']): False when listPath raises
file_exists(job, listed) == listed /\ remoteFile[job] # 0

\* the for loop of main after process_job returned: the next job, or
\* conn.close() and the end of the for loop
NextJob ==
    IF fjob < Len(JOBS)
    THEN fpc' = "jobs" /\ fjob' = fjob + 1
    ELSE fpc' = "sleep" /\ fjob' = 0

\* an exception leaves process_job and main, which catch nothing
Dies == fpc' = "dead" /\ fjob' = 0

\* what can happen after storeFile: os.makedirs raises, shutil.move raises,
\* or the file is moved
Moves == {"makedirs raised", "move raised", "moved"}

\* process_job with the move to the archive folder before the upload
process_job_archives_first(listed, stored, moved, sent) ==
    LET job == JOBS[fjob]
        local_files == folder[job]
        selected_file == Min(local_files)
        remaining_files == Cardinality(local_files) - 1
    IN
    /\ fpc = "jobs"
    /\ ticks' = ticks
    /\ IF file_exists(job, listed) \/ local_files = {}
       THEN /\ NextJob
            /\ UNCHANGED <<folder, archive, archive_path, remoteFile, fmails>>
       ELSE IF moved # "moved"
       THEN /\ Dies
            /\ archive_path' = [archive_path EXCEPT ![job] = @ \/ moved = "move raised"]
            /\ UNCHANGED <<folder, archive, remoteFile, fmails>>
       ELSE IF ~stored
       THEN /\ Dies
            /\ folder' = [folder EXCEPT ![job] = @ \ {selected_file}]
            /\ archive' = [archive EXCEPT ![job] = @ \cup {selected_file}]
            /\ archive_path' = [archive_path EXCEPT ![job] = TRUE]
            /\ UNCHANGED <<remoteFile, fmails>>
       ELSE /\ NextJob
            /\ remoteFile' = [remoteFile EXCEPT ![job] = selected_file]
            /\ folder' = [folder EXCEPT ![job] = @ \ {selected_file}]
            /\ archive' = [archive EXCEPT ![job] = @ \cup {selected_file}]
            /\ archive_path' = [archive_path EXCEPT ![job] = TRUE]
            /\ fmails' = Append(fmails, [job |-> job, file |-> selected_file,
                                         remaining |-> remaining_files, sent |-> sent])
    /\ UNCHANGED notFileManager

\* process_job(conn, job) for the job of the for loop: file_exists, the
\* sorted local files, storeFile of the first one, os.makedirs of the archive
\* folder if it does not exist, the move to it, and send_email (which prints
\* an SMTP error)
process_job(listed, stored, moved, sent) ==
    LET job == JOBS[fjob]
        local_files == folder[job]
        selected_file == Min(local_files)
        remaining_files == Cardinality(local_files) - 1
    IN
    /\ fpc = "jobs"
    /\ ticks' = ticks
    /\ IF file_exists(job, listed) \/ local_files = {}
       THEN /\ NextJob
            /\ UNCHANGED <<folder, archive, archive_path, remoteFile, fmails>>
       ELSE IF ~stored
       THEN /\ Dies
            /\ UNCHANGED <<folder, archive, archive_path, remoteFile, fmails>>
       ELSE IF moved # "moved"
       THEN /\ Dies
            /\ remoteFile' = [remoteFile EXCEPT ![job] = selected_file]
            /\ archive_path' = [archive_path EXCEPT ![job] = @ \/ moved = "move raised"]
            /\ UNCHANGED <<folder, archive, fmails>>
       ELSE /\ NextJob
            /\ remoteFile' = [remoteFile EXCEPT ![job] = selected_file]
            /\ folder' = [folder EXCEPT ![job] = @ \ {selected_file}]
            /\ archive' = [archive EXCEPT ![job] = @ \cup {selected_file}]
            /\ archive_path' = [archive_path EXCEPT ![job] = TRUE]
            /\ fmails' = Append(fmails, [job |-> job, file |-> selected_file,
                                         remaining |-> remaining_files, sent |-> sent])
    /\ UNCHANGED notFileManager

\* time.sleep(CHECK_INTERVAL) at the end of the body of the while loop
FileManagerSleep ==
    /\ fpc = "sleep"
    /\ fpc' = "connect"
    /\ UNCHANGED <<fjob, ticks, folder, archive, archive_path, remoteFile, fmails, notFileManager>>

FileManagerNext ==
    \/ \E job \in Range(JOBS), f \in Files : FileArrives(job, f)
    \/ \E job \in Range(JOBS) : RemoteConsumes(job)
    \/ \E connected \in BOOLEAN : smb_connect(connected)
    \/ \E listed \in BOOLEAN, stored \in BOOLEAN, moved \in Moves, sent \in BOOLEAN :
          process_job(listed, stored, moved, sent)
    \/ FileManagerSleep

----------------------------------------------------------------------------
(* The specification: a behaviour runs the settlements and shipments        *)
(* scripts, or one of the report scripts, or the file manager, or applies   *)
(* the decompression or the date range computation to one input            *)

Init ==
    \/ LedgerInit /\ ReportIdle /\ FileManagerIdle /\ FunctionsIdle
    \/ mode = "report" /\ LedgerIdle /\ ReportInit /\ FileManagerIdle /\ FunctionsIdle
    \/ mode = "filemgr" /\ LedgerIdle /\ ReportIdle /\ FileManagerInit /\ FunctionsIdle
    \/ mode = "decode" /\ LedgerIdle /\ ReportIdle /\ FileManagerIdle /\ DecodeInit
    \/ mode = "weekly range" /\ LedgerIdle /\ ReportIdle /\ FileManagerIdle /\ RangeInit
    \/ /\ mode = "daily range" /\ LedgerIdle /\ FileManagerIdle /\ RangeInit
       /\ ReportInit /\ script \in {"daily400", "dailynas"}
    \/ /\ mode = "monthly range" /\ LedgerIdle /\ FileManagerIdle /\ RangeInit
       /\ ReportInit /\ script = "monthly"

Next ==
    \/ LedgerNext
    \/ ReportNext
    \/ FileManagerNext
    \/ FunctionsNext

Spec == Init /\ [][Next]_vars

\* A report script alone, without the history of its status requests (observed
\* and sleeps stay empty), so that a loop of poll_report_status that goes on
\* for ever is a cycle of states.

\* poll_report_status: one status request of the while loop
PollRequest(resp) ==
    /\ rpc = "poll"
    /\ http' = <<[call |-> "status", code |-> resp.code]>>
    /\ IF resp.hasStatus
       THEN /\ rpc' = PollOutcome(remote)
            /\ stages' = IF remote = "DONE" THEN Append(stages, "await") ELSE stages
       ELSE /\ rpc' = "aborted"
            /\ UNCHANGED stages
    /\ UNCHANGED <<script, rruns, remote, jobId, observed, sleeps, share, emails, fetches, notReport>>

\* time.sleep(60) at the end of the loop body
PollWait ==
    /\ rpc = "sleep"
    /\ rpc' = "poll"
    /\ UNCHANGED <<script, rruns, remote, jobId, observed, sleeps, share, emails, stages, http, fetches, notReport>>

LiveNext ==
    \/ ReportStart
    \/ \E ok \in BOOLEAN : ReportToken(ok)
    \/ \E resp \in CreateResponses : create_report(resp)
    \/ \E s \in Statuses : RemoteStep(s)
    \/ \E resp \in StatusResponses : PollRequest(resp)
    \/ PollWait
    \/ \E doc \in DocumentResponses, dl \in DownloadResponses : download_report(doc, dl)
    \/ \E connected \in BOOLEAN, stored \in BOOLEAN : save_to_tsv(connected, stored)
    \/ \E sent \in BOOLEAN : send_email(sent)

\* the poll loop scheduled fairly: a status request that can be made is made,
\* a sleep that was started ends
PollFairness ==
    /\ WF_vars(\E resp \in StatusResponses : PollRequest(resp))
    /\ WF_vars(PollWait)

ReportAlone ==
    mode = "report" /\ LedgerIdle /\ ReportInit /\ FileManagerIdle /\ FunctionsIdle

LiveSpec == ReportAlone /\ [][LiveNext]_vars /\ PollFairness

----------------------------------------------------------------------------
(* Properties *)

IsPrefix(a, b) == Len(a) <= Len(b) /\ SubSeq(b, 1, Len(a)) = a

Ledger(p) == get_downloaded_report_ids(logFile[log_path(p)])

\* the id of item i of the listing of p, and whether the item is complete
ItemId(p, i) == IF p = "settlements" THEN listing[p][i].id ELSE listing[p][i]
ItemDone(p, i) == p = "shipments" \/ listing[p][i].status = "DONE"

\* C1 as stated: in every reachable state an id is in the ledger if and only
\* if its document has been stored to the sink at least once.
C1_LedgerIffStored ==
    \A p \in Pipelines, id \in Ids : id \in Ledger(p) <=> sink[p][id] # <<>>

\* C1 as amended: an id is in the ledger only if its document has been stored
\* to the sink at least once (the append for an id never precedes a successful
\* store of that id); an id stored and not yet, or never, appended is possible.
C1_LedgerOnlyIfStored ==
    \A p \in Pipelines, id \in Ids : id \in Ledger(p) => sink[p][id] # <<>>

\* both scripts have appended an id, each after storing its document
C1_Witness ==
    \A p \in Pipelines : \E id \in Ids : id \in Ledger(p) /\ sink[p][id] # <<>>

\* C2 as stated, for the stores of different runs: over any sequence of runs,
\* crashes included, the document of an id is stored by at most one run.
C2_AtMostOnceAcrossRuns ==
    \A p \in Pipelines, id \in Ids : Cardinality(Range(sink[p][id])) <= 1

\* C2 as amended: a run never stores the document of an id that was in the
\* ledger when the run started; an id stored but not appended (a run that
\* stopped between the store and the append) is stored again by a later run.
C2_NoStoreOnceRecorded ==
    \A p \in Pipelines, id \in Ids :
        (Running(p) /\ id \in startLedger[p]) => runs[p] \notin Range(sink[p][id])

\* a second run of settlements has passed over a listed DONE report whose id
\* the first run stored and appended
C2_Witness ==
    LET p == "settlements" IN
    /\ runs[p] = 2
    /\ lpc[p] = "loop"
    /\ idx[p] = 2
    /\ listing[p][1].status = "DONE"
    /\ listing[p][1].id \in startLedger[p]
    /\ sink[p][listing[p][1].id] = <<1>>

\* a step of p in which fetching or storing the document of the current item
\* fails, or the run is killed between the fetch and the append
FailStep(p) ==
    /\ lpc[p] \in {"fetch", "store", "store1", "store2"}
    /\ lpc'[p] \in {"loop", "aborted", "crashed"}

\* a step of the for loop of p at an item that is complete
LoopStepAtDone(p) ==
    /\ lpc[p] = "loop"
    /\ idx[p] <= Len(listing[p])
    /\ ItemDone(p, idx[p])
    /\ <<lpc[p], idx[p]>> # <<lpc'[p], idx'[p]>>

\* C3: a step in which the fetch or the store of an item fails, or the run is
\* killed between them, leaves the ledger file as it was; and a run that comes
\* to a complete item whose id is not in the ledger file fetches it.
C3_FailureIsolation ==
    [][\A p \in Pipelines :
         /\ FailStep(p) => logFile'[log_path(p)] = logFile[log_path(p)]
         /\ (LoopStepAtDone(p) /\ ItemId(p, idx[p]) \notin Ledger(p))
               => lpc'[p] \in {"fetch", "crashed"}]_vars

\* the first run of shipments stored a document once and stopped before the
\* second store (it failed, or the run was killed): the id is not in the
\* ledger, and the second run has fetched the items of that shipment again
C3_Witness ==
    LET p == "shipments" IN
    /\ runs[p] = 2
    /\ lpc[p] = "store1"
    /\ sink[p][listing[p][idx[p]]] = <<1>>
    /\ listing[p][idx[p]] \notin Ledger(p)

\* the number of lines of the ledger file of p that are id
Occurrences(p, id) ==
    LET lines == SplitLines(logFile[log_path(p)].text) IN
    Cardinality({i \in 1..Len(lines) : lines[i] = id})

OccurrencesNext(p, id) ==
    LET lines == SplitLines(logFile'[log_path(p)].text) IN
    Cardinality({i \in 1..Len(lines) : lines[i] = id})

\* C6: for an id that was in the ledger when the run started, no step of the
\* run fetches its document, stores it, appends the id or sends a notification.
C6_IdempotentSkip ==
    [][\A p \in Pipelines : \A id \in startLedger[p] :
         /\ id \notin touched'[p]
         /\ sink'[p][id] = sink[p][id]
         /\ OccurrencesNext(p, id) = Occurrences(p, id)
         /\ emails' = emails]_vars

\* a second run of shipments has gone through a listing of two shipments that
\* were both in the ledger when it started
C6_Witness ==
    LET p == "shipments" IN
    /\ lpc[p] = "loop"
    /\ Len(listing[p]) = 2
    /\ idx[p] = 3
    /\ Range(listing[p]) \subseteq startLedger[p]
    /\ startLedger[p] = Ids

\* C7: no step removes or rewrites what the ledger file holds: the file stays,
\* its text only grows at the end, and so does the set of ids read from it.
C7_AppendOnly ==
    [][\A p \in Pipelines :
         /\ logFile[log_path(p)].exists => logFile'[log_path(p)].exists
         /\ IsPrefix(logFile[log_path(p)].text, logFile'[log_path(p)].text)
         /\ Ledger(p) \subseteq get_downloaded_report_ids(logFile'[log_path(p)])]_vars

\* an id was appended to a ledger file that already held a line
C7_Witness ==
    \E p \in Pipelines : Len(SplitLines(logFile[log_path(p)].text)) >= 2

\* C8: the set loaded from the ledger file contains every id that was recorded
\* and no other; a file that does not exist loads as the empty set.
C8_RecordThenLoad ==
    \A p \in Pipelines :
        /\ recorded[p] \subseteq Ledger(p)
        /\ Ledger(p) \subseteq recorded[p]
        /\ ~logFile[log_path(p)].exists => Ledger(p) = {}

\* two different ids were recorded, one after the other, in one ledger file
C8_Witness ==
    \E p \in Pipelines : recorded[p] = Ids /\ logFile[log_path(p)].exists

\* C4 as stated: when the status read is CANCELLED or FATAL, poll_report_status
\* fails with an error and polls no more.
C4_FailsOnCancelledOrFatal ==
    (observed # <<>> /\ Last(observed) \in {"CANCELLED", "FATAL"}) => rpc = "failed"

\* C5 as stated: a terminal status (DONE, CANCELLED, FATAL) is the last status
\* a run reads: no status request follows it.
C5_TerminalIsLast ==
    \A i \in 1..(Len(observed) - 1) : observed[i] \notin Terminal

\* the order of stages C9 states
FullStages == <<"create", "await", "check", "fetch", "persist", "record", "notify">>

\* the stages of a run of a report script
ReportStages(s) ==
    IF s = "daily400"
    THEN <<"create", "await", "fetch", "persist", "notify">>
    ELSE <<"create", "await", "fetch", "persist">>

\* C9 as stated: the stages of a run that have succeeded are, in order, a
\* prefix of create, await, ledger check, fetch, persist, record, notify.
C9_FullStageOrder ==
    mode = "report" => IsPrefix(stages, FullStages)

\* C9 as amended: a run of a report script goes through create, await
\* completion, fetch, persist and (get-daily-invldgr-400.py only) notify, in
\* this order and each after the one before has succeeded, with no ledger check
\* and no record; the notification is sent only after the store succeeded. A
\* run of settlements or shipments goes, for each item, through ledger check,
\* fetch, store and record, each after the one before has succeeded.
C9_StageOrder ==
    /\ mode = "report" => IsPrefix(stages, ReportStages(script))
    /\ emails # <<>> => share # <<>>
    /\ \A p \in Pipelines :
         /\ lpc[p] \in {"fetch", "store", "store1", "store2", "log"} =>
               (ItemDone(p, idx[p]) /\ ItemId(p, idx[p]) \notin downloaded[p])
         /\ lpc[p] \in {"store", "store1", "store2", "log"} =>
               ItemId(p, idx[p]) \in touched[p]
         /\ lpc[p] \in {"store2", "log"} =>
               runs[p] \in Range(sink[p][ItemId(p, idx[p])])

\* a run of get-daily-invldgr-400.py has gone through all its stages
C9_Witness ==
    /\ script = "daily400"
    /\ rpc = "done"
    /\ stages = ReportStages("daily400")
    /\ share # <<>>
    /\ emails # <<>>

EndToEndStatuses == <<"IN_QUEUE", "IN_PROGRESS", "IN_PROGRESS", "DONE">>

\* the scenario of C10: the job was accepted, the statuses read were IN_QUEUE,
\* IN_PROGRESS, IN_PROGRESS, DONE, and the fetch and the store succeeded
EndToEndScenario ==
    /\ mode = "report"
    /\ observed = EndToEndStatuses
    /\ "persist" \in Range(stages)

\* C10 as stated: the run of the scenario ends with the job id in the ledger
\* and one notification that has the stored file name in its body.
C10_EndsRecordedAndNotified ==
    (EndToEndScenario /\ script = "daily400" /\ rpc = "done") =>
        /\ \E p \in Pipelines : jobId \in Ledger(p)
        /\ Len(emails) = 1
        /\ Last(share) \in Range(emails[1].body)

\* C10 as amended: the run of the scenario does not fail after the store; in
\* get-daily-invldgr-400.py it ends with amazonia.tsv stored once and one
\* notification that has that file name in its body, in the nas scripts with
\* the file stored once and no notification; no ledger is written.
C10_EndToEnd ==
    EndToEndScenario =>
        /\ rpc \in {"email", "done"}
        /\ share = <<Filename(script)>>
        /\ \A p \in Pipelines : ~logFile[log_path(p)].exists
        /\ script # "daily400" => (rpc = "done" /\ emails = <<>>)
        /\ (script = "daily400" /\ rpc = "email") => emails = <<>>
        /\ (script = "daily400" /\ rpc = "done") =>
              (Len(emails) = 1 /\ share[1] \in Range(emails[1].body))

\* the scenario has run to its end in get-daily-invldgr-400.py
C10_Witness ==
    /\ EndToEndScenario
    /\ script = "daily400"
    /\ rpc = "done"
    /\ Len(emails) = 1
    /\ jobId = "r1"

\* C11 as stated: a step in which a stage of a run fails leaves the ledger
\* file as it was, and a tick of the while loop of as400-file-manager.py that
\* has connected goes on, whatever fails in it, to the next job or to the
\* sleep that precedes the next tick: the loop does not end.
C11_FailureKeepsLoopAlive ==
    [][/\ \A p \in Pipelines : FailStep(p) => logFile'[log_path(p)] = logFile[log_path(p)]
       /\ fpc = "jobs" => fpc' \in {"jobs", "sleep"}]_vars

\* the function called last was f: its responses are the ones in http
LastCall(f) == http # <<>> /\ http[1].call = f

\* the status codes create_report lets through on purpose
Accepted == {200, 202}

\* C12 as stated: create_report either returns a job id that is not empty,
\* after a response that is an acceptance, or fails; when it fails no status
\* request is made in the run and the creation is not requested again.
C12_CreateReturnsIdOrFails ==
    LastCall("create") =>
        /\ rpc \in {"poll", "aborted"}
        /\ rpc = "poll" => (http[1].code \in Accepted /\ jobId # "")
        /\ rpc = "aborted" => (observed = <<>> /\ stages = <<>>)

\* the statuses the remote service documents
KnownStatuses == {"IN_QUEUE", "IN_PROGRESS", "DONE", "CANCELLED", "FATAL"}

Timeouts == {60, 120}

\* the seconds the run has slept between its status requests
Waited == sleeps * PollInterval

\* C14 as stated, for a caller that wants the wait bounded: once the timeout is
\* exceeded and the job is not terminal, poll_report_status has stopped polling
\* (it has failed with a timeout error).
C14_TimeoutStopsPolling ==
    \A timeout \in Timeouts :
        (Waited > timeout /\ Last(observed) \notin Terminal) => rpc \notin {"poll", "sleep"}

\* C14 as amended: poll_report_status takes no timeout. However long it has
\* waited, a status request that reads a non-terminal status is followed by a
\* sleep and the next request; it raises only when the status read is CANCELLED
\* (or FAILED) or the response holds no status, never because of the time.
C14_NoTimeout ==
    [][/\ (rpc = "poll" /\ observed' # observed /\ Last(observed') \notin Terminal)
             => rpc' = "sleep"
       /\ (rpc = "poll" /\ rpc' = "failed")
             => (observed' # observed /\ Last(observed') \in {"CANCELLED", "FAILED"})
       /\ (rpc = "poll" /\ rpc' = "aborted")
             => (observed' = observed /\ http'[1].code # 200)]_vars

\* a run has slept three times (180 s) between status requests that all read
\* IN_PROGRESS, and is about to request the status again
C14_Witness ==
    /\ rpc = "poll"
    /\ sleeps = 3
    /\ Waited > 120
    /\ observed = <<"IN_PROGRESS", "IN_PROGRESS", "IN_PROGRESS">>

\* the last response the run received says the access token is not valid
Unauthorized == http # <<>> /\ Last(http).code = 401

\* C15 as stated, after a 401: the run is requesting its second token, to
\* retry the call that was rejected.
C15_RefreshOn401 ==
    Unauthorized => rpc = "token"

\* C15 as amended: each run requests one access token, at its start, and uses
\* it for every remote call of the run; a call answered 401 is followed neither
\* by a second token request nor by a retry: the error ends the run.
C15_OneTokenNoRefresh ==
    [][/\ (rpc' = "token" /\ rpc # "token") => rruns' = rruns + 1
       /\ (rpc = "token" /\ http' # http) => rpc' \in {"create", "aborted"}
       /\ \A p \in Pipelines :
             (lpc'[p] = "token" /\ lpc[p] # "token") => runs'[p] = runs[p] + 1
       /\ (http' # http /\ http' # <<>> /\ Last(http').code = 401) => rpc' = "aborted"]_vars

\* the token was rejected by the third status request of a run, which ended
\* there
C15_Witness ==
    /\ LastCall("status")
    /\ Unauthorized
    /\ Len(observed) = 2
    /\ rpc = "aborted"

Success2xx == 200..299

\* the run has made its document request, or that and the download, and one of
\* the responses was not 2xx
FetchNon2xx ==
    /\ LastCall("document")
    /\ \E i \in 1..Len(http) : http[i].code \notin Success2xx

\* C17 as stated: when the response to the document request or to the download
\* is not 2xx, download_report fails: it returns no content, and nothing is
\* stored from that response.
C17_FetchFailsOnNon2xx ==
    FetchNon2xx =>
        /\ rpc = "aborted"
        /\ "fetch" \notin Range(stages)
        /\ share = <<>>

\* the payload is the text t gzip-framed, or the text t as it is
GzipOf(t) == compressed_content = GzipCompress(Utf8Encode(t))
PlainOf(t) == compressed_content = Utf8Encode(t)

Decompressed == mode = "decode" /\ report_content # NotYet

\* C18 as stated: the decompression of download_report returns the text of the
\* payload for both framings, the text that was compressed when the payload is
\* gzip-framed and the payload's own text when it is not.
C18_DecodesBothFramings ==
    Decompressed =>
        \A t \in Texts : (GzipOf(t) \/ PlainOf(t)) => report_content = [ok |-> TRUE, text |-> t]

\* C18 as amended: the decompression of download_report treats every payload
\* as gzip: a gzip-framed payload is decompressed to exactly the text that was
\* compressed; a payload that is not gzip-framed is not returned as its text,
\* it makes download_report fail (an empty payload alone comes back as the
\* empty text).
C18_GzipOnly ==
    Decompressed =>
        /\ \A t \in Texts : GzipOf(t) => report_content = [ok |-> TRUE, text |-> t]
        /\ (~GzipFramed(compressed_content) /\ compressed_content # <<>>) => ~report_content.ok
        /\ compressed_content = <<>> => report_content = [ok |-> TRUE, text |-> <<>>]

\* the gzip of "aa" (the two magic bytes, one run of two bytes, the length)
\* has been decompressed to "aa"
C18_Witness ==
    /\ Decompressed
    /\ compressed_content = GzipMagic \o <<2, 97, 2>>
    /\ GzipOf(<<"a", "a">>)
    /\ report_content = [ok |-> TRUE, text |-> <<"a", "a">>]

\* download_report raised
FetchFailed == LastCall("document") /\ rpc = "aborted"

\* C19 as stated: the error of a fetch reaches the pipeline only after three
\* attempts have failed.
C19_FetchRetriedThreeTimes ==
    FetchFailed => fetches = 3

\* C19 as amended: a failure of fetch is not retried. A run of a report script
\* calls download_report once: its error ends the run at once, its success
\* takes the run to the store. In settlements the error of a report's fetch is
\* printed and the run goes on with the next report, the ledger as it was.
C19_SingleAttempt ==
    [][/\ fetches' <= 1
       /\ (rpc = "download" /\ rpc' # "download") =>
             /\ fetches' = 1
             /\ rpc' \in {"save", "aborted"}
             /\ rpc' = "save" <=> (Len(http') = 2 /\ Last(stages') = "fetch")
       /\ LET p == "settlements" IN
          (lpc[p] = "fetch" /\ lpc'[p] = "loop") =>
             (idx'[p] = idx[p] + 1 /\ logFile' = logFile /\ sink' = sink)]_vars

\* the download of a run failed (status 403, an error document) and the run
\* ended after this one attempt
C19_Witness ==
    /\ FetchFailed
    /\ fetches = 1
    /\ http = <<[call |-> "document", code |-> 200], [call |-> "download", code |-> 403]>>

\* the range C20 states for a day: the Monday on or before it, the Tuesday
\* six days before that Monday, and the end moved to the last day of the
\* month of the start when the two lie in different months
StatedWeekly(d) ==
    LET monday == CHOOSE m \in {AddDays(d, -k) : k \in 0..6} : weekday(m) = 0
        start == AddDays(monday, -6)
    IN [monday |-> monday,
        start |-> start,
        end |-> IF start.month # monday.month
                THEN replace_day(start, DaysInMonth(start.year, start.month))
                ELSE monday]

WeeklyRangeDone == mode = "weekly range" /\ start_date # NoDate

\* C20 as stated: start_date is the Tuesday six days before the most recent
\* Monday on or before today, and end_date is that Monday, or the last day of
\* the month of start_date when start_date and the Monday lie in different
\* months. The end counts as the one stated also when the request names the
\* day after it (the code's "Include the Monday in the range").
C20_WeeklyWindow ==
    WeeklyRangeDone =>
        LET w == StatedWeekly(today) IN
        /\ start_date = w.start
        /\ weekday(start_date) = 1
        /\ end_date \in {w.end, AddDays(w.end, 1)}

\* a date of the calendar
IsDate(d) == d.month \in 1..12 /\ d.day \in 1..DaysInMonth(d.year, d.month)

DailyRangeDone == mode = "daily range" /\ start_date # NoDate

PreviousMonth(d) ==
    IF d.month = 1 THEN [year |-> d.year - 1, month |-> 12]
    ELSE [year |-> d.year, month |-> d.month - 1]

MonthlyRangeDone == mode = "monthly range" /\ start_date # NoDate

\* C22 as stated: for every today the requested range is the previous calendar
\* month: start_date is its first day and end_date its last day, so both lie in
\* the month before the month of today.
C22_MonthlyWindow ==
    MonthlyRangeDone =>
        LET m == PreviousMonth(today) IN
        /\ start_date = Date(m.year, m.month, 1)
        /\ end_date = Date(m.year, m.month, DaysInMonth(m.year, m.month))

\* C22 as amended: for every today, start_date is the first day of the month
\* before the month of today, and end_date is the day after the last day of
\* that month, which is the first day of the month of today ("Include the last
\* day in the range"): the end is not a day of the previous month.
C22_MonthlyWindowEndsDayAfter ==
    MonthlyRangeDone =>
        LET m == PreviousMonth(today) IN
        /\ start_date = Date(m.year, m.month, 1)
        /\ end_date = Date(today.year, today.month, 1)
        /\ toordinal(end_date) =
              toordinal(Date(m.year, m.month, DaysInMonth(m.year, m.month))) + 1

\* the range computed on 2024-01-15: December 2023 and the first of January
C22_Witness ==
    /\ MonthlyRangeDone
    /\ today = Date(2024, 1, 15)
    /\ start_date = Date(2023, 12, 1)
    /\ end_date = Date(2024, 1, 1)

\* the number of stores of the document of id the current run of p has made
StoresOfRun(p, id) ==
    Cardinality({k \in 1..Len(sink[p][id]) : sink[p][id][k] = runs[p]})

\* the number of items with that id the for loop of the run has taken up
TakenUp(p, id) ==
    LET last == IF lpc[p] = "loop" THEN idx[p] - 1 ELSE idx[p]
    IN Cardinality({k \in 1..last : k <= Len(listing[p]) /\ ItemId(p, k) = id})

\* C23 for one script: the run has stored the document of an id at most once
\* for each item with that id it has taken up, and once when it comes to the
\* append for the item.
StoredOncePerItem(p) ==
    \A id \in Ids :
        Running(p) =>
            /\ StoresOfRun(p, id) <= TakenUp(p, id)
            /\ (lpc[p] = "log" /\ ItemId(p, idx[p]) = id) => StoresOfRun(p, id) >= 1

\* C23: a run that processes a report or a shipment performs one and only one
\* store to the sink for it, in the settlements and in the shipments script.
C23_StoredExactlyOnce ==
    \A p \in Pipelines : StoredOncePerItem(p)

\* a step of p in which the request for, or the store of, the document of
\* the current item fails (the run is not killed)
ItemError(p) ==
    /\ lpc[p] \in {"fetch", "store", "store1", "store2"}
    /\ lpc'[p] \in {"loop", "aborted"}

\* the run of p goes on with the item after the current one
NextItem(p) ==
    /\ lpc'[p] = "loop"
    /\ idx'[p] = idx[p] + 1
    /\ listing'[p] = listing[p]

\* C24 as stated: in the settlements and in the shipments script, an error
\* while processing one item is swallowed: the ledger is not updated for the
\* item and the run goes on with the remaining items.
C24_ItemErrorsSwallowed ==
    [][\A p \in Pipelines :
         ItemError(p) => (logFile'[log_path(p)] = logFile[log_path(p)] /\ NextItem(p))]_vars

\* C24 as amended: in both scripts an error while processing one item leaves
\* the ledger as it was. The settlements script swallows it and goes on with
\* the next report; the shipments script does not catch it: the run ends with
\* the exception and the remaining shipments are left to a later run.
C24_SwallowedInSettlementsOnly ==
    [][/\ \A p \in Pipelines : ItemError(p) => logFile'[log_path(p)] = logFile[log_path(p)]
       /\ ItemError("settlements") => NextItem("settlements")
       /\ ItemError("shipments") => lpc'["shipments"] = "aborted"]_vars

\* a run of settlements in which the first report failed and the second one,
\* after it, was stored and recorded
C24_Witness ==
    LET p == "settlements" IN
    /\ runs[p] = 1
    /\ lpc[p] = "loop"
    /\ idx[p] = 3
    /\ listing[p] = <<[id |-> <<"1">>, status |-> "DONE"], [id |-> <<"2">>, status |-> "DONE"]>>
    /\ touched[p] = {<<"1">>, <<"2">>}
    /\ sink[p][<<"1">>] = <<>>
    /\ Ledger(p) = {<<"2">>}

\* the file manager is at a job of its for loop, and the step is one of
\* process_job for that job
AtJob(job) == fpc = "jobs" /\ JOBS[fjob] = job

\* the step stores the local file f as the remote file of the job
Uploads(job, f) == remoteFile'[job] = f /\ remoteFile'[job] # remoteFile[job]

\* C25: on each tick, for each job, the file uploaded is the first file of the
\* job's folder in the order of the names; a file leaves the folder only for the
\* archive folder, which exists from then on, and only in a step in which it was
\* uploaded; a step in which the upload fails leaves it in the folder.
C25_UploadThenArchive ==
    [][\A job \in Range(JOBS) : AtJob(job) =>
         /\ \A f \in Files : Uploads(job, f) =>
               (f \in folder[job] /\ \A g \in folder[job] : f <= g)
         /\ \A f \in folder[job] \ folder'[job] :
               /\ Uploads(job, f)
               /\ archive'[job] = archive[job] \cup {f}
               /\ archive_path'[job]
         /\ archive'[job] \subseteq archive[job] \cup (folder[job] \ folder'[job])
         /\ (fpc' = "dead" /\ remoteFile'[job] = remoteFile[job]) =>
               (folder'[job] = folder[job] /\ archive'[job] = archive[job])]_vars

\* of two files in the folder of the first job the first one was uploaded and
\* moved to the archive folder, created for it; the second one is still there
C25_Witness ==
    /\ mode = "filemgr"
    /\ folder["job1"] = {2}
    /\ archive["job1"] = {1}
    /\ archive_path["job1"]
    /\ remoteFile["job1"] = 1
    /\ Len(fmails) = 1 /\ fmails[1].remaining = 1

\* a step in which a message is handed to the mail server and sending it fails
NotifyFails(mails) == Len(mails') = Len(mails) + 1 /\ ~Last(mails').sent

\* C26: a step in which sending the notification fails ends as the step in
\* which it succeeds: the run of get-daily-invldgr-400.py is done, with the
\* share as it was; the tick of as400-file-manager.py goes on to the next job
\* or to its sleep, the file uploaded and in the archive folder; no ledger
\* file and no sink changes.
C26_NotifierFailureNotEscalated ==
    [][/\ NotifyFails(emails) =>
            /\ rpc' = "done"
            /\ stages' = Append(stages, "notify")
            /\ share' = share
            /\ logFile' = logFile /\ sink' = sink
       /\ NotifyFails(fmails) =>
            LET m == Last(fmails') IN
            /\ fpc' \in {"jobs", "sleep"}
            /\ remoteFile'[m.job] = m.file
            /\ folder'[m.job] = folder[m.job] \ {m.file}
            /\ archive'[m.job] = archive[m.job] \cup {m.file}
            /\ logFile' = logFile /\ sink' = sink]_vars

\* a run of get-daily-invldgr-400.py is done, the file on the share, and the
\* one message it tried to send was not sent
C26_Witness ==
    /\ script = "daily400"
    /\ rpc = "done"
    /\ share = <<Filename("daily400")>>
    /\ emails = <<[body |-> EmailBody, sent |-> FALSE]>>
    /\ Last(stages) = "notify"

\* a step of the for loop of p that passes over a complete item
Skips(p) ==
    /\ LoopStepAtDone(p)
    /\ lpc'[p] = "loop"
    /\ idx'[p] = idx[p] + 1

OneSleepBetweenPolls ==
    /\ rpc = "poll" => sleeps = Len(observed)
    /\ rpc \in {"sleep", "download", "failed"} => sleeps = Len(observed) - 1

\* C28: between two consecutive status requests of a run there is exactly one
\* sleep of the poll interval, no two status requests follow each other
\* without one, and the loop does not sleep after a request that returned a
\* terminal status (DONE, CANCELLED, FATAL).
C28_OneSleepNoneAfterTerminal ==
    mode = "report" =>
        /\ OneSleepBetweenPolls
        /\ rpc = "sleep" => Last(observed) \notin Terminal
        /\ (rpc = "poll" /\ observed # <<>>) => Last(observed) \notin Terminal

\* the run is in the loop of poll_report_status
Polling == rpc \in {"poll", "sleep"}

\* C29: when the job has reached a terminal status (DONE, CANCELLED or FATAL),
\* where it stays, a run that is in the loop of poll_report_status eventually
\* leaves the loop, by returning the document id or by failing.
C29_PollingTerminates ==
    (remote \in Terminal /\ Polling) ~> ~Polling

\* the date range of a request has been computed, by whichever script
RangeDone == WeeklyRangeDone \/ DailyRangeDone \/ MonthlyRangeDone

\* C30: for every today and every script, daily, weekly and monthly, the range
\* of the request is well-formed: start_date is not later than end_date.
C30_StartNotAfterEnd ==
    RangeDone => toordinal(start_date) <= toordinal(end_date)

\* in the run of p the document of each id has been stored at most once, and
\* an id that was not in the ledger when the run started is in it at most once
OncePerRun(p) ==
    \A id \in Ids :
        Running(p) =>
            /\ StoresOfRun(p, id) <= 1
            /\ id \notin startLedger[p] => Occurrences(p, id) <= 1

\* the for loop of p goes on to fetch the document of the item it is at
StartsFetch(p) == lpc[p] = "loop" /\ lpc'[p] = "fetch"

\* C31: within one run of the settlements or of the shipments script each id
\* is fetched, stored and recorded at most once, also when the listing holds
\* the id more than once.
C31_OncePerRun ==
    /\ [](\A p \in Pipelines : OncePerRun(p))
    /\ [][\A p \in Pipelines :
            StartsFetch(p) => ItemId(p, idx[p]) \notin touched[p]]_vars

\* C32: process_job stores a local file under the remote file name of a job
\* only when no file of that name is on the share, also in a tick in which
\* listing the share fails: a remote file that is still there is never
\* overwritten.
C32_NoOverwriteOfPendingFile ==
    [][\A job \in Range(JOBS), f \in Files :
         (AtJob(job) /\ Uploads(job, f)) => remoteFile[job] = 0]_vars

\* a step of process_job for the job: the for loop of main moves on, or ends
ProcessJobStep(job) == AtJob(job) /\ (fjob' # fjob \/ fpc' # fpc)

\* the messages about a file of a job
MailsAbout(job, f) == {i \in 1..Len(fmails) : fmails[i].job = job /\ fmails[i].file = f}

\* C33: the folder of a job is drained as a queue. A step of process_job
\* uploads at most one file, the first of the folder in the order of the names,
\* and a file that was uploaded and archived before is not uploaded again; a
\* step that finds files and no remote file, and does not fail, takes one file
\* out of the folder, into the archive folder; the message reports the number
\* of files that were in the folder minus one, which is the number left.
C33_FolderDrainedAsQueue ==
    /\ [](\A job \in Range(JOBS), f \in Files : Cardinality(MailsAbout(job, f)) <= 1)
    /\ [][\A job \in Range(JOBS) : ProcessJobStep(job) =>
            /\ Cardinality(folder[job] \ folder'[job]) <= 1
            /\ \A f \in Files : Uploads(job, f) =>
                  /\ f \in folder[job] /\ \A g \in folder[job] : f <= g
                  /\ f \notin archive[job] /\ MailsAbout(job, f) = {}
                  /\ fpc' # "dead" => (f \notin folder'[job] /\ f \in archive'[job])
            /\ (folder[job] # {} /\ remoteFile[job] = 0 /\ fpc' # "dead") =>
                  /\ Cardinality(folder'[job]) = Cardinality(folder[job]) - 1
                  /\ Len(fmails') = Len(fmails) + 1
                  /\ Last(fmails').job = job
                  /\ Last(fmails').file = remoteFile'[job]
                  /\ Last(fmails').remaining = Cardinality(folder[job]) - 1
                  /\ Last(fmails').remaining = Cardinality(folder'[job])
            /\ fmails' # fmails => fjob' # fjob \/ fpc' = "sleep"]_vars

\* the two files of the folder of the first job were uploaded in two ticks,
\* the first one first, and the messages counted one file left, then none
C33_Witness ==
    /\ mode = "filemgr"
    /\ ticks = 2
    /\ folder["job1"] = {}
    /\ archive["job1"] = {1, 2}
    /\ remoteFile["job1"] = 2
    /\ Len(fmails) = 2
    /\ fmails[1].job = "job1" /\ fmails[1].file = 1 /\ fmails[1].remaining = 1
    /\ fmails[2].job = "job1" /\ fmails[2].file = 2 /\ fmails[2].remaining = 0

\* the ids the listing of the run of settlements holds with status DONE
ListedDone ==
    {listing["settlements"][k].id :
        k \in {i \in 1..Len(listing["settlements"]) : listing["settlements"][i].status = "DONE"}}

\* a step of the for loop of settlements at an item whose status is not DONE
PassesNotDone ==
    LET p == "settlements" IN
    /\ lpc[p] = "loop" /\ lpc'[p] # "crashed"
    /\ idx[p] <= Len(listing[p])
    /\ listing[p][idx[p]].status # "DONE"
    /\ <<lpc[p], idx[p]>> # <<lpc'[p], idx'[p]>>

\* the listing request of settlements is answered with a status other than 200
ListingRefused == lpc["settlements"] = "list" /\ lpc'["settlements"] = "done"

\* the step requests no document, stores nothing and leaves the ledger files
NothingFetchedOrKept == logFile' = logFile /\ sink' = sink /\ touched' = touched

\* what the run of settlements has requested, stored and recorded so far was
\* listed with status DONE
OnlyDoneSoFar ==
    LET p == "settlements" IN
    Running(p) =>
        /\ lpc[p] \in {"fetch", "store", "log"} => listing[p][idx[p]].status = "DONE"
        /\ touched[p] \subseteq ListedDone
        /\ Ledger(p) \ startLedger[p] \subseteq ListedDone
        /\ \A id \in Ids : StoresOfRun(p, id) > 0 => id \in ListedDone

\* C34: a run of the settlements script requests, stores and records only
\* reports its listing holds with status DONE. The for loop passes over an item
\* with another status and changes nothing, and a listing response with a
\* status other than 200 ends the run with no request for a document, no store
\* and the ledger file as it was.
C34_OnlyDoneReports ==
    /\ [](OnlyDoneSoFar)
    /\ [][/\ PassesNotDone => (NextItem("settlements") /\ NothingFetchedOrKept)
          /\ ListingRefused => (NothingFetchedOrKept /\ touched["settlements"] = {})]_vars

\* a run listed report 1 in progress and report 2 done: it has passed over the
\* first and stored and recorded the second
C34_Witness ==
    LET p == "settlements" IN
    /\ runs[p] = 1
    /\ lpc[p] = "loop"
    /\ idx[p] = 3
    /\ listing[p] = <<[id |-> <<"1">>, status |-> "IN_PROGRESS"], [id |-> <<"2">>, status |-> "DONE"]>>
    /\ touched[p] = {<<"2">>}
    /\ sink[p][<<"1">>] = <<>>
    /\ sink[p][<<"2">>] = <<1>>
    /\ Ledger(p) = {<<"2">>}

====
